---- MODULE Spec2Model ----
(***************************************************************************)
(* A model of pm-tool (src/src/main.rs): the batch manager of the git      *)
(* repositories found under the current directory.  The program is four    *)
(* sequential workflows (scan, clone, grep, pull) over three helpers: the  *)
(* directory scanner find_git_dirs, the remote resolver parse_repo_path    *)
(* and the manifest file .git_projects.json.                               *)
(*                                                                         *)
(* Text is modelled as sequences of one-character strings, so that         *)
(* starts_with, split, strip_suffix and join are computed as the code      *)
(* computes them.  A path is the sequence of its components.               *)
(***************************************************************************)
EXTENDS Naturals, Sequences, FiniteSets, TLC

VARIABLES
    remote,     \* resolver harness: the remote string handed to parse_repo_path
    parsed,     \* resolver harness: what parse_repo_path returned
    tree,       \* the directory tree under "." that find_git_dirs walks
    found,      \* scanner harness: what find_git_dirs returned
    pc,         \* position of the running workflow
    result,     \* what main returns: Running, Ok or an error
    repos,      \* the Vec the workflow's for loop consumes
    idx,        \* number of elements of repos the loop has consumed
    acc,        \* scan: the Vec<RepoRemote> being accumulated
    manifest,   \* content of the file .git_projects.json
    dirs,       \* clone: the paths that exist below the current directory
    log,        \* the external effects issued so far, in order
    runs        \* number of times the subcommand has been started

vars == <<remote, parsed, tree, found, pc, result, repos, idx, acc,
          manifest, dirs, log, runs>>

(***************************************************************************)
(* Bounds of the model.                                                    *)
(***************************************************************************)
\* longest path, in segments, of a generated remote
MaxSegs == 2

\* deepest directory of a generated tree, and the most directories below "."
MaxDepth == 2

MaxDirs == 2

\* most records of a manifest
MaxRecords == 2

\* most directories, the root among them, of a tree that scan or pull walks
MaxRepos == 2

(***************************************************************************)
(* Option, as Rust's Option<T>.                                            *)
(***************************************************************************)
None == <<>>

Some(v) == <<v>>

IsSome(o) == Len(o) = 1

Unwrap(o) == o[1]

(***************************************************************************)
(* Text.                                                                   *)
(***************************************************************************)
Range(s) == {s[i] : i \in 1..Len(s)}

\* str::starts_with
StartsWith(s, p) == Len(s) >= Len(p) /\ SubSeq(s, 1, Len(p)) = p

\* str::ends_with
EndsWith(s, suf) ==
    Len(s) >= Len(suf) /\ SubSeq(s, Len(s) - Len(suf) + 1, Len(s)) = suf

\* a strip_suffix that never finds the suffix missing
StripSuffix_keep(s, suf) ==
    IF EndsWith(s, suf) THEN Some(SubSeq(s, 1, Len(s) - Len(suf))) ELSE Some(s)

\* str::strip_suffix: the text without the suffix, None when it does not end so
StripSuffix(s, suf) ==
    IF EndsWith(s, suf) THEN Some(SubSeq(s, 1, Len(s) - Len(suf))) ELSE None

\* the index of the first c in s, 0 when there is none
RECURSIVE IndexFrom(_, _, _)
IndexFrom(s, c, i) ==
    IF i > Len(s) THEN 0
    ELSE IF s[i] = c THEN i
    ELSE IndexFrom(s, c, i + 1)

\* str::split(c), collected: the pieces between the separators, empty ones kept
RECURSIVE Split(_, _)
Split(s, c) ==
    LET i == IndexFrom(s, c, 1)
    IN  IF i = 0 THEN <<s>>
        ELSE <<SubSeq(s, 1, i - 1)>> \o Split(SubSeq(s, i + 1, Len(s)), c)

\* an nth that counts from 1
Nth_from1(xs, n) == IF n >= 1 /\ Len(xs) >= n THEN Some(xs[n]) ELSE None

\* Iterator::nth, counted from 0
Nth(xs, n) == IF Len(xs) > n THEN Some(xs[n + 1]) ELSE None

\* Iterator::skip
Skip(xs, n) == IF n >= Len(xs) THEN <<>> ELSE SubSeq(xs, n + 1, Len(xs))

\* [&str]::join(sep)
RECURSIVE Join(_, _)
Join(xs, sep) ==
    IF Len(xs) = 0 THEN <<>>
    ELSE IF Len(xs) = 1 THEN xs[1]
    ELSE xs[1] \o <<sep>> \o Join(Tail(xs), sep)

GIT_AT == <<"g", "i", "t", "@">>

HTTP == <<"h", "t", "t", "p">>

DOT_GIT == <<".", "g", "i", "t">>

(***************************************************************************)
(* parse_repo_path.                                                        *)
(***************************************************************************)
\* Ok((PathBuf::from(p), p)): the two components hold the same text
OkPath(p) == [ok |-> TRUE, path |-> p, err |-> <<>>]

\* Err(anyhow!("cannot resolve repository path: {remote}"))
ParseError(r) ==
    [ok |-> FALSE, path |-> <<>>,
     err |-> <<"cannot", "resolve", "repository", "path", ":">> \o r]

\* and_then / ok_or_else / ?: the path of an Option, or the parse error
OkOrParseError(o, r) == IF IsSome(o) THEN OkPath(Unwrap(o)) ELSE ParseError(r)

\* the git@ branch: the second ':'-separated piece, without ".git"
SshBranch(r) ==
    LET second == Nth(Split(r, ":"), 1)
    IN  OkOrParseError(IF IsSome(second) THEN StripSuffix(Unwrap(second), DOT_GIT) ELSE None, r)

\* an http branch that discards only the scheme and the empty piece
HttpBranch_skip2(r) ==
    OkOrParseError(StripSuffix(Join(Skip(Split(r, "/"), 2), "/"), DOT_GIT), r)

\* the http branch: the pieces after the third, rejoined, without ".git"
HttpBranch(r) ==
    OkOrParseError(StripSuffix(Join(Skip(Split(r, "/"), 3), "/"), DOT_GIT), r)

\* the resolver: git@ remotes, http remotes, and an error for the rest
parse_repo_path(r) ==
    IF StartsWith(r, GIT_AT) THEN SshBranch(r)
    ELSE IF StartsWith(r, HTTP) THEN HttpBranch(r)
    ELSE ParseError(r)

(***************************************************************************)
(* The remotes the resolver is tried on: a head (user@host with or without *)
(* the colon, scheme://host with or without the third slash), a path text  *)
(* and a suffix.                                                           *)
(***************************************************************************)
GitUser == <<"g", "i", "t">>

GroupName == <<"g", "/", "n">>

Users == {GitUser, <<"b", "o", "b">>}

Hosts == {<<"h">>, <<"h", ".", "i", "o">>}

Schemes == {HTTP, HTTP \o <<"s">>, <<"f", "t", "p">>}

SegNames == {<<"g">>, <<"n">>}

\* the sequences over S of length 1..n
SeqsUpTo(S, n) == UNION {[1..k -> S] : k \in 1..n}

\* group/name style paths, without a colon
PlainPaths == {Join(p, "/") : p \in SeqsUpTo(SegNames, MaxSegs)}

\* path texts with a colon of their own
ColonPaths == {<<"g", ":", "n">>, <<"g", ".", "g", "i", "t", ":", "n">>}

PathTexts == PlainPaths \cup ColonPaths \cup {<<>>}

Suffixes == {DOT_GIT, <<>>}

SshHead(u, h) == u \o <<"@">> \o h \o <<":">>

UrlHead(s, h) == s \o <<":", "/", "/">> \o h \o <<"/">>

Heads ==
    {SshHead(u, h) : u \in Users, h \in Hosts}
    \cup {u \o <<"@">> \o h : u \in Users, h \in Hosts}
    \cup {UrlHead(s, h) : s \in Schemes, h \in Hosts}
    \cup {s \o <<":", "/", "/">> \o h : s \in Schemes, h \in Hosts}

Remotes == {hd \o p \o suf : hd \in Heads, p \in PathTexts, suf \in Suffixes}

\* a harness that has not called its function yet; a workflow still running
NotCalled == None

Running == None

\* struct RepoRemote
RepoRemote(r) == [remote |-> r]

\* the manifest file: absent, not a JSON array of records, or the records
Missing == [state |-> "missing", records |-> <<>>]

Malformed == [state |-> "malformed", records |-> <<>>]

Written(rs) == [state |-> "json", records |-> rs]

EmptyTree == [dirs |-> {<<>>}, git |-> [d \in {<<>>} |-> "none"], unreadable |-> {}]

\* the variables a harness or workflow does not use
ResolverIdle == remote = <<>> /\ parsed = NotCalled

ScannerIdle == tree = EmptyTree /\ found = NotCalled

WorkflowIdle ==
    /\ pc = "idle" /\ result = Running /\ repos = <<>> /\ idx = 0 /\ acc = <<>>
    /\ manifest = Missing /\ dirs = {} /\ log = <<>> /\ runs = 1

wfvars == <<pc, result, repos, idx, acc, manifest, dirs, log, runs>>

(***************************************************************************)
(* The resolver on its own: one call of parse_repo_path.                   *)
(***************************************************************************)
InitResolve ==
    /\ remote \in Remotes
    /\ parsed = NotCalled
    /\ ScannerIdle
    /\ WorkflowIdle

Resolve ==
    /\ parsed = NotCalled
    /\ parsed' = Some(parse_repo_path(remote))
    /\ UNCHANGED <<remote, tree, found>>
    /\ UNCHANGED wfvars

NextResolve == Resolve

SpecResolve == InitResolve /\ [][NextResolve]_vars

(***************************************************************************)
(* find_git_dirs.  The tree below "." is the set of its directories (the   *)
(* root is the empty path), what each holds under the name .git ("dir",    *)
(* "file" or "none") and the directories that cannot be read.  WalkDir     *)
(* yields a directory before its content, yields an error in place of the  *)
(* content of a directory it cannot read, and does not follow links.  The  *)
(* content of a .git directory is not modelled.                            *)
(***************************************************************************)
DirNames == {<<"a">>, <<"b">>}

GitKinds == {"none", "dir", "file"}

Root == <<>>

\* Path::parent of a path with at least one component
Parent(p) == SubSeq(p, 1, Len(p) - 1)

\* Path::file_name
FileName(p) == p[Len(p)]

\* the order in which read_dir hands out the names of a directory
NameOrder == <<<<"a">>, <<"b">>>>

\* one item of the walk: Ok(DirEntry) with its path and file type, or Err
Entry(p, isdir) == [ok |-> TRUE, path |-> p, is_dir |-> isdir]

WalkError(p) == [ok |-> FALSE, path |-> p, is_dir |-> FALSE]

\* the items below directory d: its .git, then its sub-directories in order
RECURSIVE WalkDir(_, _)
RECURSIVE WalkChildren(_, _, _)
WalkChildren(t, d, i) ==
    IF i > Len(NameOrder) THEN <<>>
    ELSE (IF d \o <<NameOrder[i]>> \in t.dirs THEN WalkDir(t, d \o <<NameOrder[i]>>) ELSE <<>>)
         \o WalkChildren(t, d, i + 1)

\* WalkDir::new(d).into_iter(), collected
WalkDir(t, d) ==
    <<Entry(d, TRUE)>> \o
    (IF d \in t.unreadable THEN <<WalkError(d)>>
     ELSE (IF t.git[d] = "none" THEN <<>> ELSE <<Entry(d \o <<DOT_GIT>>, t.git[d] = "dir")>>)
          \o WalkChildren(t, d, 1))

\* a filter that looks at the name alone
IsGitDir_nameonly(e) == Len(e.path) > 0 /\ FileName(e.path) = DOT_GIT

\* the filter: e.file_type().is_dir() && e.file_name() == ".git"
IsGitDir(e) == e.is_dir /\ Len(e.path) > 0 /\ FileName(e.path) = DOT_GIT

\* filter_map(|e| e.ok()).filter(..).map(|e| e.path().parent()).collect()
RECURSIVE CollectGitParents(_)
CollectGitParents(es) ==
    IF Len(es) = 0 THEN <<>>
    ELSE (IF Head(es).ok /\ IsGitDir(Head(es)) THEN <<Parent(Head(es).path)>> ELSE <<>>)
         \o CollectGitParents(Tail(es))

find_git_dirs(t) == CollectGitParents(WalkDir(t, Root))

\* the candidate directories below the root, down to depth n
DirsToDepth(n) == UNION {[1..k -> DirNames] : k \in 1..n}

PrefixClosed(D) == \A p \in D : Len(p) > 1 => Parent(p) \in D

\* the trees over the directories D and the root
TreesOver(D, kinds, U) ==
    {[dirs |-> D \cup {Root}, git |-> g, unreadable |-> u] :
        g \in [D \cup {Root} -> kinds], u \in U}

\* the trees of at most n directories below the root, down to depth m
Trees(m, n) ==
    UNION {TreesOver(D, GitKinds, SUBSET (D \cup {Root})) :
            D \in {E \in SUBSET DirsToDepth(m) : Cardinality(E) <= n /\ PrefixClosed(E)}}

(***************************************************************************)
(* The scanner on its own: one call of find_git_dirs.                      *)
(***************************************************************************)
InitWalk ==
    /\ tree \in Trees(MaxDepth, MaxDirs)
    /\ found = NotCalled
    /\ ResolverIdle
    /\ WorkflowIdle

Walk ==
    /\ found = NotCalled
    /\ found' = Some(find_git_dirs(tree))
    /\ UNCHANGED <<remote, parsed, tree>>
    /\ UNCHANGED wfvars

NextWalk == Walk

SpecWalk == InitWalk /\ [][NextWalk]_vars

(***************************************************************************)
(* The file system the clone workflow sees: the directories that exist     *)
(* (as component sequences, relative to the current directory) and the     *)
(* manifest file.                                                          *)
(***************************************************************************)
JSON_FILE ==
    <<".", "g", "i", "t", "_", "p", "r", "o", "j", "e", "c", "t", "s", ".", "j", "s", "o", "n">>

\* the pieces that are components: empty pieces and "." are not
RECURSIVE DropEmpty(_)
DropEmpty(ps) ==
    IF Len(ps) = 0 THEN <<>>
    ELSE (IF Head(ps) = <<>> \/ Head(ps) = <<".">> THEN <<>> ELSE <<Head(ps)>>)
         \o DropEmpty(Tail(ps))

\* Path::components of a relative path text
Components(text) == DropEmpty(Split(text, "/"))

\* the non-empty prefixes of a path
Prefixes(p) == {SubSeq(p, 1, k) : k \in 1..Len(p)}

\* the manifest file lies on path p, or on the way to it
ThroughFile(p, mf) == mf.state # "missing" /\ <<JSON_FILE>> \in Prefixes(p)

\* an exists() that finds nothing
PathExists_never(text, ds, mf) == FALSE

\* Path::exists: the path names a directory or the manifest file; "" names nothing
PathExists(text, ds, mf) ==
    /\ Len(text) > 0
    /\ \/ Components(text) \in ds
       \/ (Components(text) = <<JSON_FILE>> /\ mf.state # "missing")

\* Path::parent of a path text: None for "", else the path without its last component
PathParent(text) ==
    IF Len(Components(text)) = 0 THEN None ELSE Some(Parent(Components(text)))

IoOutcomes == {"ok", "denied"}

\* fs::create_dir_all(p): Ok (TRUE) with the directories it leaves behind, or an
\* io error when a file is in the way or the system refuses
MkdirAll(p, ds, mf, io) ==
    IF Len(p) = 0 THEN [ok |-> TRUE, dirs |-> ds]
    ELSE IF ThroughFile(p, mf) \/ io = "denied" THEN [ok |-> FALSE, dirs |-> ds]
    ELSE [ok |-> TRUE, dirs |-> ds \cup Prefixes(p)]

\* how a subprocess run through Command::status or Command::output can end:
\* it ran and exited 0, it ran and exited non-zero, or it could not be started
SUCCESS == "exit 0"

FAILURE == "exit non-zero"

CANNOT_START == "cannot start"

Outcomes == {SUCCESS, FAILURE, CANNOT_START}

\* what git clone leaves below the current directory
GitClone(p, ds, outcome) == IF outcome = SUCCESS THEN ds \cup Prefixes(p) ELSE ds

\* the textual results of the workflows
Ok == Some([ok |-> TRUE, err |-> <<>>])

Err(msg) == Some([ok |-> FALSE, err |-> msg])

IsErr(r) == r # Running /\ ~Unwrap(r).ok

\* with_context on read_to_string: "run scan first, <file> not found"
NoManifestMsg == <<"run", "scan", "first", ",", "not", "found", ":">> \o JSON_FILE

JsonMsg == <<"json", "syntax">>

IoMsg == <<"io", "error">>

\* with_context on the clone's status(): "git clone <remote> failed"
CloneFailedMsg(r) == <<"git", "clone">> \o r \o <<"failed">>

\* one effect of a loop iteration, as the log keeps it: what was done for which
\* element, whether its target was on disk at that moment, and how it ended
Event(op, i, target, on_disk, how) ==
    [run |-> runs, rec |-> i, op |-> op, target |-> target, existed |-> on_disk, outcome |-> how]

\* the path is on disk: a directory or the manifest file
OnDisk(p, ds, mf) == p \in ds \/ (p = <<JSON_FILE>> /\ mf.state # "missing")

(***************************************************************************)
(* clone_from_json.                                                        *)
(***************************************************************************)
G == <<"g">>

N == <<"n">>

H == <<"h">>

\* the remotes a manifest is made of
CloneRemotes ==
    { SshHead(GitUser, H) \o GroupName \o DOT_GIT,             \* git@h:g/n.git
      UrlHead(HTTP \o <<"s">>, H) \o GroupName \o DOT_GIT,      \* https://h/g/n.git
      SshHead(GitUser, H) \o G \o DOT_GIT \o <<":">> \o N,      \* git@h:g.git:n
      SshHead(<<"b", "o", "b">>, H) \o GroupName \o DOT_GIT,    \* bob@h:g/n.git
      SshHead(GitUser, H) \o GroupName,                         \* git@h:g/n
      GitUser \o <<"@">> \o H,                                  \* git@h
      UrlHead(<<"f", "t", "p">>, H) \o GroupName \o DOT_GIT,    \* ftp://h/g/n.git
      UrlHead(HTTP, H) \o GroupName,                            \* http://h/g/n
      SshHead(GitUser, H) \o JSON_FILE \o <<"/">> \o N \o DOT_GIT }

\* the manifests of at most n records
Manifests(n) ==
    {Missing, Malformed}
    \cup {Written(rs) : rs \in UNION {[1..k -> {RepoRemote(x) : x \in CloneRemotes}] : k \in 0..n}}

InitialDirSets == {{}, {<<G>>}}

InitClone ==
    /\ manifest \in Manifests(MaxRecords)
    /\ dirs \in InitialDirSets
    /\ pc = "start" /\ result = Running /\ repos = <<>> /\ idx = 0
    /\ acc = <<>> /\ log = <<>> /\ runs = 1
    /\ ResolverIdle
    /\ ScannerIdle

\* a start that takes a missing manifest for an empty one
CloneStart_lenient ==
    /\ pc = "start"
    /\ IF manifest.state = "malformed"
       THEN /\ result' = Err(JsonMsg)
            /\ pc' = "done"
            /\ UNCHANGED repos
       ELSE /\ repos' = manifest.records
            /\ pc' = "loop"
            /\ UNCHANGED result
    /\ UNCHANGED <<remote, parsed, tree, found, idx, acc, manifest, dirs, log, runs>>

\* fs::read_to_string(JSON_FILE) with its context, then serde_json::from_str
CloneStart ==
    /\ pc = "start"
    /\ IF manifest.state = "missing"
       THEN /\ result' = Err(NoManifestMsg)
            /\ pc' = "done"
            /\ UNCHANGED repos
       ELSE IF manifest.state = "malformed"
       THEN /\ result' = Err(JsonMsg)
            /\ pc' = "done"
            /\ UNCHANGED repos
       ELSE /\ repos' = manifest.records
            /\ pc' = "loop"
            /\ UNCHANGED result
    /\ UNCHANGED <<remote, parsed, tree, found, idx, acc, manifest, dirs, log, runs>>

\* one iteration of the for loop: resolve, skip when the path exists, else
\* create the parent directories and run git clone
CloneRecord ==
    /\ pc = "loop"
    /\ idx < Len(repos)
    /\ LET i == idx + 1
           r == repos[i].remote
           res == parse_repo_path(r)
           target == Components(res.path)
           parent == PathParent(res.path)
           resolved == Event("resolve", i, target, OnDisk(target, dirs, manifest),
                             IF res.ok THEN "ok" ELSE "error")
       IN  IF ~res.ok
           THEN /\ result' = Err(res.err)
                /\ pc' = "done"
                /\ log' = Append(log, resolved)
                /\ UNCHANGED <<idx, dirs>>
           ELSE IF PathExists(res.path, dirs, manifest)
           THEN /\ idx' = i
                /\ log' = log \o <<resolved, Event("skip", i, target, OnDisk(target, dirs, manifest), "ok")>>
                /\ UNCHANGED <<result, pc, dirs>>
           ELSE \E io \in IoOutcomes, how \in Outcomes :
                LET made == IF IsSome(parent)
                            THEN MkdirAll(Unwrap(parent), dirs, manifest, io)
                            ELSE [ok |-> TRUE, dirs |-> dirs]
                    mkdir == Event("mkdir", i, target, OnDisk(target, dirs, manifest),
                                   IF made.ok THEN "ok" ELSE "error")
                    called == IF IsSome(parent) THEN <<mkdir>> ELSE <<>>
                    clone == Event("clone", i, target, OnDisk(target, made.dirs, manifest), how)
                IN  IF ~made.ok
                    THEN /\ result' = Err(IoMsg)
                         /\ pc' = "done"
                         /\ log' = log \o <<resolved>> \o called
                         /\ UNCHANGED <<idx, dirs>>
                    ELSE IF how = CANNOT_START
                    THEN /\ result' = Err(CloneFailedMsg(r))
                         /\ pc' = "done"
                         /\ dirs' = made.dirs
                         /\ log' = log \o <<resolved>> \o called \o <<clone>>
                         /\ UNCHANGED idx
                    ELSE /\ idx' = i
                         /\ dirs' = GitClone(target, made.dirs, how)
                         /\ log' = log \o <<resolved>> \o called \o <<clone>>
                         /\ UNCHANGED <<result, pc>>
    /\ UNCHANGED <<remote, parsed, tree, found, repos, acc, manifest, runs>>

\* the loop is exhausted: Ok(())
CloneDone ==
    /\ pc = "loop"
    /\ idx = Len(repos)
    /\ result' = Ok
    /\ pc' = "done"
    /\ UNCHANGED <<remote, parsed, tree, found, repos, idx, acc, manifest, dirs, log, runs>>

\* the command is run a second time, on what the first run left
CloneAgain ==
    /\ pc = "done"
    /\ runs = 1
    /\ runs' = 2
    /\ pc' = "start" /\ result' = Running /\ repos' = <<>> /\ idx' = 0
    /\ UNCHANGED <<remote, parsed, tree, found, acc, manifest, dirs, log>>

NextClone == CloneStart \/ CloneRecord \/ CloneDone \/ CloneAgain

SpecClone == InitClone /\ [][NextClone]_vars

(***************************************************************************)
(* The trees scan and pull walk: at most n directories, the root and       *)
(* directories right below it, every one readable, and a repository or not.*)
(***************************************************************************)
RepoTrees(n) ==
    UNION {TreesOver(D, {"none", "dir"}, {{}}) :
            D \in {E \in SUBSET DirsToDepth(1) : Cardinality(E) < n}}

\* one subprocess of a loop iteration, as the log keeps it: the arguments git
\* was given, where, how it ended and what it wrote to its standard output
Cmd(i, dir, args, how, out) ==
    [rec |-> i, dir |-> dir, args |-> args, outcome |-> how,
     stdout |-> IF how = CANNOT_START THEN <<>> ELSE out]

(***************************************************************************)
(* scan_git_projects.                                                      *)
(***************************************************************************)
Whitespace == {" ", "\n", "\t"}

\* str::trim: without the whitespace at both ends
RECURSIVE TrimStart(_)
TrimStart(s) ==
    IF Len(s) > 0 /\ Head(s) \in Whitespace THEN TrimStart(Tail(s)) ELSE s

RECURSIVE TrimEnd(_)
TrimEnd(s) ==
    IF Len(s) > 0 /\ s[Len(s)] \in Whitespace THEN TrimEnd(SubSeq(s, 1, Len(s) - 1)) ELSE s

Trim(s) == TrimEnd(TrimStart(s))

Origin1 == SshHead(GitUser, H) \o GroupName \o DOT_GIT

Origin2 == UrlHead(HTTP \o <<"s">>, H) \o G \o DOT_GIT

OldRemote == UrlHead(<<"f", "t", "p">>, H) \o N \o DOT_GIT

\* what git remote get-url origin may write to its standard output
Stdouts == {<<>>, <<"\n">>, Origin1 \o <<"\n">>, <<" ">> \o Origin2 \o <<"\n">>}

\* what the manifest file may hold before scan runs
PriorManifests == {Missing, Malformed, Written(<<RepoRemote(OldRemote), RepoRemote(Origin1)>>)}

InitScan ==
    /\ tree \in RepoTrees(MaxRepos)
    /\ manifest \in PriorManifests
    /\ pc = "start" /\ result = Running /\ repos = <<>> /\ idx = 0
    /\ acc = <<>> /\ log = <<>> /\ runs = 1 /\ dirs = {}
    /\ found = NotCalled
    /\ ResolverIdle

\* let mut repos = Vec::new(); find_git_dirs()
ScanStart ==
    /\ pc = "start"
    /\ repos' = find_git_dirs(tree)
    /\ acc' = <<>>
    /\ pc' = "loop"
    /\ UNCHANGED <<remote, parsed, tree, found, result, idx, manifest, dirs, log, runs>>

\* the Vec after the query of one directory, if every query that ran were kept
Collect_any(rs, how, out) ==
    IF how # CANNOT_START THEN Append(rs, RepoRemote(Trim(out))) ELSE rs

\* the Vec after the query of one directory: the trimmed output is pushed when
\* the query could be run, exited 0 and wrote more than whitespace
Collect(rs, how, out) ==
    IF how = SUCCESS /\ Trim(out) # <<>> THEN Append(rs, RepoRemote(Trim(out))) ELSE rs

\* one iteration of the for loop: git remote get-url origin in the directory
ScanQuery ==
    /\ pc = "loop"
    /\ idx < Len(repos)
    /\ \E how \in Outcomes, out \in Stdouts :
        LET q == Cmd(idx + 1, repos[idx + 1], <<"remote", "get-url", "origin">>, how, out)
        IN  /\ log' = Append(log, q)
            /\ acc' = Collect(acc, q.outcome, q.stdout)
    /\ idx' = idx + 1
    /\ UNCHANGED <<remote, parsed, tree, found, pc, result, repos, manifest, dirs, runs>>

WriteOutcomes == {"written", "create fails", "write fails"}

\* File::create and serde_json::to_writer_pretty: the file holds the records, or
\* is as it was when it cannot be created, or is cut short when the write fails
ScanWrite ==
    /\ pc = "loop"
    /\ idx = Len(repos)
    /\ \E w \in WriteOutcomes :
        /\ manifest' = CASE w = "written" -> Written(acc)
                         [] w = "create fails" -> manifest
                         [] w = "write fails" -> Malformed
        /\ result' = IF w = "written" THEN Ok ELSE Err(IoMsg)
    /\ pc' = "done"
    /\ UNCHANGED <<remote, parsed, tree, found, repos, idx, acc, dirs, log, runs>>

NextScan == ScanStart \/ ScanQuery \/ ScanWrite

SpecScan == InitScan /\ [][NextScan]_vars

(***************************************************************************)
(* pull_all_projects.                                                      *)
(***************************************************************************)
STATUS == <<"status", "--porcelain">>

ADD == <<"add", ".">>

STASH == <<"stash">>

CHECKOUT == <<"checkout", "master">>

PULL == <<"pull", "origin", "master">>

\* what git status --porcelain may write: nothing, or a line for a changed file
Porcelain == {<<>>, <<" ", "M", " ", "f", "\n">>}

\* a body that stashes whatever the status says
PullPlan_always_stash(i, dir, st, out, a, s, c, p) ==
    <<Cmd(i, dir, STATUS, st, out), Cmd(i, dir, ADD, a, <<>>), Cmd(i, dir, STASH, s, <<>>),
      Cmd(i, dir, CHECKOUT, c, <<>>), Cmd(i, dir, PULL, p, <<>>)>>

\* the subprocesses of the loop body, in order, were none of them to fail to start
PullPlan(i, dir, st, out, a, s, c, p) ==
    <<Cmd(i, dir, STATUS, st, out)>>
    \o (IF Cmd(i, dir, STATUS, st, out).stdout # <<>>
        THEN <<Cmd(i, dir, ADD, a, <<>>), Cmd(i, dir, STASH, s, <<>>)>>
        ELSE <<>>)
    \o <<Cmd(i, dir, CHECKOUT, c, <<>>), Cmd(i, dir, PULL, p, <<>>)>>

\* the ? after output() and status(): the subprocesses up to and with the first
\* that cannot be started
RECURSIVE UntilError(_)
UntilError(cs) ==
    IF Len(cs) = 0 THEN <<>>
    ELSE IF Head(cs).outcome = CANNOT_START THEN <<Head(cs)>>
    ELSE <<Head(cs)>> \o UntilError(Tail(cs))

InitPull ==
    /\ tree \in RepoTrees(MaxRepos)
    /\ manifest = Missing
    /\ pc = "start" /\ result = Running /\ repos = <<>> /\ idx = 0
    /\ acc = <<>> /\ log = <<>> /\ runs = 1 /\ dirs = {}
    /\ found = NotCalled
    /\ ResolverIdle

\* find_git_dirs()
PullStart ==
    /\ pc = "start"
    /\ repos' = find_git_dirs(tree)
    /\ pc' = "loop"
    /\ UNCHANGED <<remote, parsed, tree, found, result, idx, acc, manifest, dirs, log, runs>>

\* one iteration of the for loop
PullRepo ==
    /\ pc = "loop"
    /\ idx < Len(repos)
    /\ \E st, a, s, c, p \in Outcomes, out \in Porcelain :
        LET ran == UntilError(PullPlan(idx + 1, repos[idx + 1], st, out, a, s, c, p))
        IN  /\ log' = log \o ran
            /\ IF ran[Len(ran)].outcome = CANNOT_START
               THEN /\ result' = Err(IoMsg)
                    /\ pc' = "done"
                    /\ UNCHANGED idx
               ELSE /\ idx' = idx + 1
                    /\ UNCHANGED <<result, pc>>
    /\ UNCHANGED <<remote, parsed, tree, found, repos, acc, manifest, dirs, runs>>

\* the loop is exhausted: Ok(())
PullDone ==
    /\ pc = "loop"
    /\ idx = Len(repos)
    /\ result' = Ok
    /\ pc' = "done"
    /\ UNCHANGED <<remote, parsed, tree, found, repos, idx, acc, manifest, dirs, log, runs>>

NextPull == PullStart \/ PullRepo \/ PullDone

SpecPull == InitPull /\ [][NextPull]_vars

(***************************************************************************)
(* Properties of the resolver.                                             *)
(***************************************************************************)
\* the text after the k-th c of s, None when s holds fewer
RECURSIVE AfterNth(_, _, _)
AfterNth(s, c, k) ==
    IF k = 0 THEN Some(s)
    ELSE IF Len(s) = 0 THEN None
    ELSE AfterNth(Tail(s), c, IF Head(s) = c THEN k - 1 ELSE k)

\* s without its last four characters
DropDotGit(s) == SubSeq(s, 1, Len(s) - Len(DOT_GIT))

\* C4 as stated: every user@host:path.git, whatever the user, resolves to path
C4_AnyUser ==
    parsed # NotCalled =>
        \A u \in Users, h \in Hosts, p \in PathTexts :
            remote = SshHead(u, h) \o p \o DOT_GIT => Unwrap(parsed) = OkPath(p)

\* C4, amended: git@host:path.git, with no colon in path, resolves to path
C4_GitUser ==
    parsed # NotCalled =>
        \A h \in Hosts, p \in PathTexts :
            (remote = SshHead(GitUser, h) \o p \o DOT_GIT /\ ":" \notin Range(p))
                => Unwrap(parsed) = OkPath(p)

C4_Witness ==
    /\ remote = SshHead(GitUser, <<"h">>) \o GroupName \o DOT_GIT
    /\ parsed = Some(OkPath(GroupName))

\* C5 as stated: every remote that starts with http and ends with .git resolves
\* to the text after its third slash, without the .git
C5_EveryHttp ==
    (parsed # NotCalled /\ StartsWith(remote, HTTP) /\ EndsWith(remote, DOT_GIT)) =>
        /\ Unwrap(parsed).ok
        /\ Unwrap(parsed).path = DropDotGit(Unwrap(AfterNth(remote, "/", 3)))

\* C5, amended: a remote that starts with http, ends with .git and holds at
\* least three slashes resolves to the text after the third slash without the
\* .git, so without the scheme and the host: for https://host/path.git that is
\* path, as for git@host:path.git; with fewer slashes it is a parse error
C5_ThreeSlashes ==
    (parsed # NotCalled /\ StartsWith(remote, HTTP) /\ EndsWith(remote, DOT_GIT)) =>
        /\ IsSome(AfterNth(remote, "/", 3)) =>
            Unwrap(parsed) = OkPath(DropDotGit(Unwrap(AfterNth(remote, "/", 3))))
        /\ ~IsSome(AfterNth(remote, "/", 3)) => ~Unwrap(parsed).ok
        /\ \A sc \in {HTTP, HTTP \o <<"s">>}, h \in Hosts, p \in PlainPaths :
            remote = UrlHead(sc, h) \o p \o DOT_GIT =>
                /\ Unwrap(parsed) = OkPath(p)
                /\ Unwrap(parsed) = parse_repo_path(SshHead(GitUser, h) \o p \o DOT_GIT)

C5_Witness ==
    /\ remote = UrlHead(HTTP \o <<"s">>, <<"h">>) \o GroupName \o DOT_GIT
    /\ parsed = Some(OkPath(GroupName))

(***************************************************************************)
(* Properties of the scanner.                                              *)
(***************************************************************************)
\* the directories that hold a .git directory
GitParents(t) == {d \in t.dirs : t.git[d] = "dir"}

\* d and every directory above it can be read
Reachable(t, d) == \A k \in 0..Len(d) : SubSeq(d, 1, k) \notin t.unreadable

\* C9 as stated: the scanner returns exactly the directories that hold a .git
\* directory, also below a directory that cannot be read
C9_AllGitParents ==
    found # NotCalled => Range(Unwrap(found)) = GitParents(tree)

\* C9, amended: the scanner returns, each once, exactly the directories that
\* hold a .git directory and are reached through readable directories
C9_ReachableGitParents ==
    found # NotCalled =>
        /\ Range(Unwrap(found)) = {d \in GitParents(tree) : Reachable(tree, d)}
        /\ Len(Unwrap(found)) = Cardinality(Range(Unwrap(found)))

\* a repository nested in a repository, next to an unreadable directory and
\* above a directory whose .git is a file
C9_Witness ==
    /\ found # NotCalled
    /\ tree.unreadable # {}
    /\ \E d \in tree.dirs : tree.git[d] = "file"
    /\ \E d \in Range(Unwrap(found)) : Len(d) > 0 /\ Parent(d) \in Range(Unwrap(found))

(***************************************************************************)
(* Properties of the clone workflow.                                       *)
(***************************************************************************)
\* the events of the run in progress
Current(e) == e.run = runs

\* the event is the last thing its run did
LastOfRun(k) == \A j \in (k + 1)..Len(log) : log[j].run # log[k].run

\* C1: a git clone that exits with a failure status, or cannot be started,
\* is the last thing its run does, and the run ends with an error
C1_CloneFailureAborts ==
    \A k \in 1..Len(log) :
        (log[k].op = "clone" /\ log[k].outcome \in {FAILURE, CANNOT_START}) =>
            /\ LastOfRun(k)
            /\ Current(log[k]) => IsErr(result)

\* C3: a record whose path is on disk when it is reached is skipped, with no
\* directory made and no clone, and the run goes on without an error; git
\* clone is never run on a target that is on disk when it is run
C3_ExistingPathSkipped ==
    /\ \A k \in 1..Len(log) :
        /\ (log[k].op = "resolve" /\ log[k].outcome = "ok" /\ log[k].existed) =>
            /\ k < Len(log)
            /\ log[k + 1].op = "skip" /\ log[k + 1].rec = log[k].rec /\ log[k + 1].run = log[k].run
            /\ \A j \in 1..Len(log) :
                (log[j].run = log[k].run /\ log[j].rec = log[k].rec) => log[j].op \in {"resolve", "skip"}
        /\ log[k].op \in {"mkdir", "clone"} => ~log[k].existed
    /\ (Len(log) > 0 /\ log[Len(log)].op = "skip" /\ Current(log[Len(log)])) => ~IsErr(result)

\* in the second run a record is skipped whose path the first run cloned, and in
\* one run a record is skipped whose path an earlier record of the run cloned
C3_Witness ==
    /\ \E j, k \in 1..Len(log) :
        /\ log[j].op = "clone" /\ log[j].outcome = SUCCESS /\ log[j].run = 1
        /\ log[k].op = "skip" /\ log[k].run = 2 /\ log[k].target = log[j].target
    /\ \E j, k \in 1..Len(log) :
        /\ j < k /\ log[j].run = log[k].run
        /\ log[j].op = "clone" /\ log[j].outcome = SUCCESS
        /\ log[k].op = "skip" /\ log[k].target = log[j].target
    /\ result = Ok

\* the remote of an event
RemoteOf(e) == manifest.records[e.rec].remote

SshStyle(r) == StartsWith(r, GIT_AT)

HttpStyle(r) == StartsWith(r, HTTP)

\* the text of s before its first c
UpTo(s, c) == IF IndexFrom(s, c, 1) = 0 THEN s ELSE SubSeq(s, 1, IndexFrom(s, c, 1) - 1)

\* the text between the first colon of r and its second colon, or its end
SecondPiece(r) == UpTo(Unwrap(AfterNth(r, ":", 1)), ":")

NoSecondPiece(r) == SshStyle(r) /\ ":" \notin Range(r)

OtherShape(r) == ~SshStyle(r) /\ ~HttpStyle(r)

\* a resolution that is a parse error ends its run with that error, before
\* any directory is made or clone run for the record
ParseErrorAborts(k) ==
    /\ log[k].outcome = "error"
    /\ LastOfRun(k)
    /\ Current(log[k]) => result = Err(ParseError(RemoteOf(log[k])).err)

\* C6 as stated: a parse error for (a) an SSH-style remote without a second
\* piece, (b) an SSH- or HTTP-style remote that does not end with .git, (c) any
\* other shape
C6_NoDotGitAtEnd ==
    \A k \in 1..Len(log) :
        (/\ log[k].op = "resolve"
         /\ \/ NoSecondPiece(RemoteOf(log[k]))
            \/ (SshStyle(RemoteOf(log[k])) \/ HttpStyle(RemoteOf(log[k])))
                    /\ ~EndsWith(RemoteOf(log[k]), DOT_GIT)
            \/ OtherShape(RemoteOf(log[k])))
        => ParseErrorAborts(k)

\* C6, amended: in (b) the SSH-style remote is one whose text between the first
\* and the second colon (or the end) does not end with .git
C6_NoDotGitInPiece ==
    \A k \in 1..Len(log) :
        (/\ log[k].op = "resolve"
         /\ \/ NoSecondPiece(RemoteOf(log[k]))
            \/ SshStyle(RemoteOf(log[k])) /\ ":" \in Range(RemoteOf(log[k]))
                    /\ ~EndsWith(SecondPiece(RemoteOf(log[k])), DOT_GIT)
            \/ HttpStyle(RemoteOf(log[k])) /\ ~EndsWith(RemoteOf(log[k]), DOT_GIT)
            \/ OtherShape(RemoteOf(log[k])))
        => ParseErrorAborts(k)

\* after a record that was cloned, a record without the .git is a parse error
\* that ends the run
C6_Witness ==
    /\ Len(log) = 4
    /\ log[3].op = "clone" /\ log[3].rec = 1 /\ log[3].outcome = SUCCESS
    /\ log[4].op = "resolve" /\ log[4].rec = 2 /\ log[4].outcome = "error"
    /\ RemoteOf(log[4]) = SshHead(GitUser, H) \o GroupName
    /\ result = Err(ParseError(RemoteOf(log[4])).err)

\* C8: a run on a missing manifest ends with an error that names scan, and a
\* run on a missing or malformed manifest makes no directory and runs no clone;
\* no step of clone changes the manifest
C8_MissingManifest ==
    [][/\ manifest' = manifest
       /\ (pc = "start" /\ manifest.state = "missing") =>
            /\ IsErr(result') /\ "scan" \in Range(Unwrap(result').err)
            /\ pc' = "done" /\ dirs' = dirs /\ log' = log
       /\ (pc = "start" /\ manifest.state = "malformed") =>
            /\ IsErr(result') /\ pc' = "done" /\ dirs' = dirs /\ log' = log]_vars

C8_Witness ==
    /\ manifest = Missing
    /\ pc = "done"
    /\ result = Err(NoManifestMsg)
    /\ dirs = {} /\ log = <<>>

(***************************************************************************)
(* Properties of the scan workflow.                                        *)
(***************************************************************************)
\* the URL in an output: its characters that are not whitespace
UrlOf(out) == SelectSeq(out, LAMBDA c : c \notin Whitespace)

Succeeded(q) == q.outcome = SUCCESS

\* the records of the queries that succeeded, in the order of the queries; with
\* blank, also of those that wrote nothing but whitespace
RECURSIVE RecordsOf(_, _)
RecordsOf(qs, blank) ==
    IF Len(qs) = 0 THEN <<>>
    ELSE (IF Succeeded(Head(qs)) /\ (blank \/ UrlOf(Head(qs).stdout) # <<>>)
          THEN <<RepoRemote(UrlOf(Head(qs).stdout))>>
          ELSE <<>>)
         \o RecordsOf(Tail(qs), blank)

\* every directory has been queried, in the order of the walk
AllQueried ==
    /\ Len(log) = Len(repos)
    /\ \A k \in 1..Len(log) : log[k].dir = repos[k] /\ log[k].rec = k

\* C7 as stated: scan ends in an error only when the manifest cannot be
\* written, and when it ends well the manifest holds exactly one record for
\* each directory whose query succeeded
C7_EverySuccess ==
    /\ IsErr(result) => AllQueried
    /\ result = Ok => (AllQueried /\ manifest = Written(RecordsOf(log, TRUE)))

\* C7, amended: one record for each directory whose query succeeded and wrote
\* more than whitespace
C7_EveryUrl ==
    /\ IsErr(result) => AllQueried
    /\ result = Ok =>
        /\ AllQueried
        /\ manifest = Written(RecordsOf(log, FALSE))

\* a scan that ended well over a query that failed and a later one that gave a URL
C7_Witness ==
    /\ result = Ok
    /\ Len(log) = 2
    /\ log[1].outcome = FAILURE /\ log[2].outcome = SUCCESS
    /\ manifest = Written(<<RepoRemote(Origin2)>>)

(***************************************************************************)
(* Properties of the pull workflow.                                        *)
(***************************************************************************)
\* C2: a step that fails, by its exit status or by not starting, is the last
\* step of the batch, and the batch ends with an error
C2_StepFailureAborts ==
    \A k \in 1..Len(log) :
        log[k].outcome \in {FAILURE, CANNOT_START} => (k = Len(log) /\ IsErr(result))

\* the arguments of the steps run in the i-th directory, in order
ArgsIn(i) == LET of_i == SelectSeq(log, LAMBDA e : e.rec = i)
             IN  [k \in 1..Len(of_i) |-> of_i[k].args]

\* the i-th directory's status wrote something
Dirty(i) == \E k \in 1..Len(log) : log[k].rec = i /\ log[k].args = STATUS /\ log[k].stdout # <<>>

\* the steps a directory is due
Due(i) == IF Dirty(i) THEN <<STATUS, ADD, STASH, CHECKOUT, PULL>> ELSE <<STATUS, CHECKOUT, PULL>>

IsPrefix(xs, ys) == Len(xs) <= Len(ys) /\ xs = SubSeq(ys, 1, Len(xs))

\* C10: in each directory the steps run are status, then add and stash exactly
\* when the status wrote something, then checkout master, then pull origin
\* master, each once and nothing else; a directory's steps are cut short only by
\* the step that ends the batch, and come after all steps of the directory before
C10_PullOrder ==
    /\ \A k \in 1..Len(log) : log[k].rec \in 1..Len(repos) /\ log[k].dir = repos[log[k].rec]
    /\ \A k \in 1..(Len(log) - 1) : log[k].rec <= log[k + 1].rec
    /\ \A i \in 1..Len(repos) :
        /\ IsPrefix(ArgsIn(i), Due(i))
        /\ i <= idx => ArgsIn(i) = Due(i)
        /\ i > idx + 1 => ArgsIn(i) = <<>>
        /\ (i = idx + 1 /\ ArgsIn(i) # <<>>) =>
            (IsErr(result) /\ log[Len(log)].rec = i /\ log[Len(log)].outcome = CANNOT_START)

\* a batch that ended well over a directory with changes and one without
C10_Witness ==
    /\ result = Ok
    /\ Len(repos) = 2
    /\ Dirty(1) /\ ~Dirty(2)
    /\ ArgsIn(1) = <<STATUS, ADD, STASH, CHECKOUT, PULL>>
    /\ ArgsIn(2) = <<STATUS, CHECKOUT, PULL>>

====
